---- MODULE Spec2Model ----
(***************************************************************************)
(* A model of the pure CIDR calculator (src/pure_cidr_calculator.py):      *)
(* the IP and Network classes, find_optimal_cidrs and analyze_network, as  *)
(* driven by the menu loop of main().  src/cidr_calculator.py, the same    *)
(* menu over Python's ipaddress library, is not modelled.                  *)
(*                                                                         *)
(* Representation.                                                         *)
(*  - A Python int n >= 0 is the set of the positions of its 1 bits        *)
(*    (5 = {0, 2}); Python ints are unbounded and so are these sets, and   *)
(*    the widths 32 and 128 are the real ones.                             *)
(*  - A Python str is a sequence of one-character strings.                 *)
(*  - A raised ValueError is a record [ok |-> FALSE, err |-> message].     *)
(*  - The program's messages are Bulgarian; each is written here in        *)
(*    English, one text per message of the code.                           *)
(***************************************************************************)
EXTENDS Integers, Sequences, FiniteSets, TLC

(***************************************************************************)
(* Python int arithmetic on sets of bit positions.                         *)
(***************************************************************************)
Shl(x, n) == {i + n : i \in x}

Shr(x, n) == {i - n : i \in {j \in x : j >= n}}

And(x, y) == x \cap y

Or(x, y) == x \cup y

Xor(x, y) == (x \ y) \cup (y \ x)

\* (1 << n) - 1
Pow2Minus1(n) == 0 .. (n - 1)

\* 1 << n
Pow2(n) == {n}

Max(S) == CHOOSE m \in S : \A k \in S : k <= m

RECURSIVE Add(_, _)
Add(x, y) == IF y = {} THEN x ELSE Add(Xor(x, y), Shl(And(x, y), 1))

\* x + (1 << n): the carry runs up through the bits of x set from n on
AddPow2(x, n) ==
    LET z == CHOOSE i \in n .. (Max(x \cup {n}) + 1) :
                 i \notin x /\ \A j \in n .. (i - 1) : j \in x
    IN  (x \ (n .. (z - 1))) \cup {z}

\* x < y on Python ints: the highest bit where they differ is set in y
Lt(x, y) ==
    LET a == x \ y
        b == y \ x
    IN  IF b = {} THEN FALSE
        ELSE IF a = {} THEN TRUE
        ELSE Max(a) < Max(b)

\* x <= y
Le(x, y) == ~Lt(y, x)

\* a small TLA+ integer as a Python int, and back
RECURSIVE IntToBitsFrom(_, _)
IntToBitsFrom(n, pos) ==
    IF n = 0 THEN {}
    ELSE (IF n % 2 = 1 THEN {pos} ELSE {}) \cup IntToBitsFrom(n \div 2, pos + 1)

IntToBits(n) == IntToBitsFrom(n, 0)

RECURSIVE BitsToIntFrom(_, _, _)
BitsToIntFrom(x, pos, top) ==
    IF pos > top THEN 0
    ELSE (IF pos \in x THEN 1 ELSE 0) + 2 * BitsToIntFrom(x, pos + 1, top)

\* the value of x & ((1 << n) - 1), for n small enough for a TLA+ integer
LowBitsToInt(x, n) == BitsToIntFrom(x, 0, n - 1)

(***************************************************************************)
(* Python str operations on sequences of characters.                       *)
(***************************************************************************)
Digits == <<"0", "1", "2", "3", "4", "5", "6", "7", "8", "9">>

HexDigits == <<"0", "1", "2", "3", "4", "5", "6", "7", "8", "9",
               "a", "b", "c", "d", "e", "f">>

DigitVal(c) == (CHOOSE i \in 1..Len(HexDigits) : HexDigits[i] = c) - 1

IsDec(c) == \E i \in 1..Len(Digits) : Digits[i] = c

IsHex(c) == \E i \in 1..Len(HexDigits) : HexDigits[i] = c

\* c in s
Contains(s, c) == \E i \in 1..Len(s) : s[i] = c

\* s.count(c)
Count(s, c) == Cardinality({i \in 1..Len(s) : s[i] = c})

\* '::' in s
HasDoubleColon(s) == \E i \in 1..(Len(s) - 1) : s[i] = ":" /\ s[i + 1] = ":"

\* s.split(sep): the parts between the separators, empty parts included
RECURSIVE SplitFrom(_, _, _, _)
SplitFrom(s, sep, i, cur) ==
    IF i > Len(s) THEN <<cur>>
    ELSE IF s[i] = sep THEN <<cur>> \o SplitFrom(s, sep, i + 1, <<>>)
    ELSE SplitFrom(s, sep, i + 1, Append(cur, s[i]))

Split(s, sep) == SplitFrom(s, sep, 1, <<>>)

\* sep.join(parts)
RECURSIVE Join(_, _)
Join(parts, sep) ==
    IF Len(parts) = 0 THEN <<>>
    ELSE IF Len(parts) = 1 THEN parts[1]
    ELSE parts[1] \o <<sep>> \o Join(Tail(parts), sep)

\* t * n (the empty string when n <= 0)
RECURSIVE Repeat(_, _)
Repeat(t, n) == IF n <= 0 THEN <<>> ELSE t \o Repeat(t, n - 1)

\* s.replace('::', t): every non-overlapping occurrence, left to right
RECURSIVE ReplaceDoubleColon(_, _, _)
ReplaceDoubleColon(s, t, i) ==
    IF i > Len(s) THEN <<>>
    ELSE IF i < Len(s) /\ s[i] = ":" /\ s[i + 1] = ":"
         THEN t \o ReplaceDoubleColon(s, t, i + 2)
    ELSE <<s[i]>> \o ReplaceDoubleColon(s, t, i + 1)

\* int(part): the decimal value; the text must be non-empty decimal digits
DecOk(part) == Len(part) > 0 /\ \A i \in 1..Len(part) : IsDec(part[i])

RECURSIVE DecVal(_, _)
DecVal(part, n) ==
    IF n = 0 THEN 0 ELSE 10 * DecVal(part, n - 1) + DigitVal(part[n])

\* int(part, 16)
HexOk(part) == Len(part) > 0 /\ \A i \in 1..Len(part) : IsHex(part[i])

RECURSIVE HexVal(_, _)
HexVal(part, n) ==
    IF n = 0 THEN 0 ELSE 16 * HexVal(part, n - 1) + DigitVal(part[n])

\* str(n) for an integer n >= 0
RECURSIVE DecStr(_)
DecStr(n) ==
    IF n < 10 THEN <<Digits[n + 1]>>
    ELSE Append(DecStr(n \div 10), Digits[(n % 10) + 1])

\* format(n, '04x')
Hex04(n) ==
    <<HexDigits[(n \div 4096) + 1], HexDigits[((n \div 256) % 16) + 1],
      HexDigits[((n \div 16) % 16) + 1], HexDigits[(n % 16) + 1]>>

(***************************************************************************)
(* class IP                                                                *)
(***************************************************************************)
BITS_V4 == 32

BITS_V6 == 128

Raise(msg) == [ok |-> FALSE, val |-> {}, err |-> msg]

Return(v) == [ok |-> TRUE, val |-> v, err |-> ""]

\* the for loop of _ipv4_to_int over parts[i..]
RECURSIVE Ipv4Loop(_, _, _)
Ipv4Loop(parts, i, result) ==
    IF i > Len(parts) THEN Return(result)
    ELSE IF ~DecOk(parts[i]) THEN Raise("invalid literal for int() with base 10")
    ELSE LET octet == DecVal(parts[i], Len(parts[i]))
         IN  IF ~(0 <= octet /\ octet <= 255)
             THEN Raise("invalid octet value")
             ELSE Ipv4Loop(parts, i + 1, Add(Shl(result, 8), IntToBits(octet)))

_ipv4_to_int(ip_str) ==
    LET parts == Split(ip_str, ".")
    IN  IF Len(parts) # 4 THEN Raise("invalid IPv4 address")
        ELSE Ipv4Loop(parts, 1, {})

\* the expansion of a compressed address, lines 35-41
ExpandDoubleColon(ip_str) ==
    IF HasDoubleColon(ip_str)
    THEN LET missing_count == 8 - Count(ip_str, ":") + 1
             s1 == ReplaceDoubleColon(
                       ip_str, <<":">> \o Repeat(<<":", "0">>, missing_count) \o <<":">>, 1)
             s2 == IF Len(s1) > 0 /\ s1[1] = ":" THEN <<"0">> \o s1 ELSE s1
             s3 == IF Len(s2) > 0 /\ s2[Len(s2)] = ":" THEN s2 \o <<"0">> ELSE s2
         IN  s3
    ELSE ip_str

\* the for loop of _ipv6_to_int over parts[i..]
RECURSIVE Ipv6Loop(_, _, _)
Ipv6Loop(parts, i, result) ==
    IF i > Len(parts) THEN Return(result)
    ELSE IF Len(parts[i]) = 0 THEN Raise("invalid IPv6 address")
    ELSE IF ~HexOk(parts[i]) THEN Raise("invalid literal for int() with base 16")
    ELSE LET hex_val == HexVal(parts[i], Len(parts[i]))
         IN  IF ~(0 <= hex_val /\ hex_val <= 65535)
             THEN Raise("invalid IPv6 part value")
             ELSE Ipv6Loop(parts, i + 1, Add(Shl(result, 16), IntToBits(hex_val)))

_ipv6_to_int(ip_str) ==
    LET parts == Split(ExpandDoubleColon(ip_str), ":")
    IN  IF Len(parts) # 8 THEN Raise("invalid IPv6 address")
        ELSE Ipv6Loop(parts, 1, {})

\* IP.__init__: the object, or the ValueError it raises
IP(ip_str) ==
    LET version == IF Contains(ip_str, ":") THEN 6 ELSE 4
        r == IF version = 4 THEN _ipv4_to_int(ip_str) ELSE _ipv6_to_int(ip_str)
    IN  [ok |-> r.ok, err |-> r.err, version |-> version, ip_int |-> r.val]

RECURSIVE Ipv4Octets(_, _)
Ipv4Octets(ip_int, n) ==
    IF n = 0 THEN <<>>
    ELSE Append(Ipv4Octets(Shr(ip_int, 8), n - 1), DecStr(LowBitsToInt(ip_int, 8)))

_int_to_ipv4_str(ip_int) == Join(Ipv4Octets(ip_int, 4), ".")

RECURSIVE Ipv6Parts(_, _)
Ipv6Parts(ip_int, n) ==
    IF n = 0 THEN <<>>
    ELSE Append(Ipv6Parts(Shr(ip_int, 16), n - 1), Hex04(LowBitsToInt(ip_int, 16)))

_int_to_ipv6_str(ip_int) == Join(Ipv6Parts(ip_int, 8), ":")

IntToStr(version, ip_int) ==
    IF version = 4 THEN _int_to_ipv4_str(ip_int) ELSE _int_to_ipv6_str(ip_int)

(***************************************************************************)
(* class Network                                                           *)
(***************************************************************************)
\* a slip: the count starts at 1
count_leading_zeros_OffByOne(num, bits) ==
    IF num = {} THEN bits
    ELSE 1 + Cardinality({p \in 0 .. (bits - 1) : \A q \in p .. (bits - 1) : q \notin num})

\* count_leading_zeros: the while loop walks mask down from bit bits-1 and counts
\* the positions it passes before the first one set in num (all of them if none is)
count_leading_zeros(num, bits) ==
    IF num = {} THEN bits
    ELSE Cardinality({p \in 0 .. (bits - 1) : \A q \in p .. (bits - 1) : q \notin num})

find_optimal_prefix(start, end, bits) ==
    IF start = end THEN bits
    ELSE LET diff == Xor(start, end)
         IN  bits - (bits - count_leading_zeros(diff, bits))

BitsOf(version) == IF version = 4 THEN BITS_V4 ELSE BITS_V6

\* ((1 << bits) - 1) ^ ((1 << (bits - prefix)) - 1)
NetMask(bits, prefix) == Xor(Pow2Minus1(bits), Pow2Minus1(bits - prefix))

\* x - 1 as _int_to_ipv4_str / _int_to_ipv6_str read it: they look at the low
\* `bits` bits only, and Python's -1 has all of them set
Pred(x, bits) ==
    IF x = {} THEN Pow2Minus1(bits)
    ELSE LET low == CHOOSE i \in x : \A j \in x : i <= j
         IN  (x \ {low}) \cup Pow2Minus1(low)

\* a slip: the address is stored as given, not masked
calculate_network_values_Unmasked(ip, prefix_length) ==
    [netmask_int |-> NetMask(BitsOf(ip.version), prefix_length),
     network_address_int |-> ip.ip_int,
     broadcast_address_int |->
         Or(ip.ip_int, Pow2Minus1(BitsOf(ip.version) - prefix_length))]

\* _calculate_network_values: the three fields it sets
calculate_network_values(ip, prefix_length) ==
    LET bits == BitsOf(ip.version)
        netmask_int == NetMask(bits, prefix_length)
        network_address_int == And(ip.ip_int, netmask_int)
    IN  [netmask_int |-> netmask_int,
         network_address_int |-> network_address_int,
         broadcast_address_int |->
             Or(network_address_int, Pow2Minus1(bits - prefix_length))]

NoNetwork(msg) ==
    [ok |-> FALSE, err |-> msg, version |-> 0, ip_int |-> {}, prefix_length |-> 0,
     netmask_int |-> {}, network_address_int |-> {}, broadcast_address_int |-> {}]

\* lines 143-148: the prefix range check and the network values
NetworkChecked(ip, prefix_length, max_prefix) ==
    IF ~ip.ok THEN NoNetwork(ip.err)
    ELSE IF ~(0 <= prefix_length /\ prefix_length <= max_prefix)
    THEN NoNetwork("the prefix is out of range")
    ELSE [ok |-> TRUE, err |-> "", version |-> ip.version, ip_int |-> ip.ip_int,
          prefix_length |-> prefix_length]
             @@ calculate_network_values(ip, prefix_length)

\* self.ip is set before the prefix is converted and checked
NetworkOfIP(ip, prefix_length) ==
    NetworkChecked(ip, prefix_length, IF ip.version = 4 THEN BITS_V4 ELSE BITS_V6)

\* lines 133-145, on the two halves of the text
NetworkParsed(ip_str, prefix_str) ==
    IF ~DecOk(prefix_str) THEN NoNetwork("the prefix must be a number")
    ELSE NetworkOfIP(IP(ip_str), DecVal(prefix_str, Len(prefix_str)))

NetworkSplit(halves) ==
    IF Len(halves) # 2 THEN NoNetwork("too many values to unpack")
    ELSE NetworkParsed(halves[1], halves[2])

\* Network.__init__: the object, or the ValueError it raises
Network(network_str) ==
    IF ~Contains(network_str, "/") THEN NoNetwork("enter an IP address with a prefix")
    ELSE NetworkSplit(Split(network_str, "/"))

get_network_address(n) == IntToStr(n.version, n.network_address_int)

get_broadcast_address(n) == IntToStr(n.version, n.broadcast_address_int)

get_netmask(n) == IntToStr(n.version, n.netmask_int)

get_first_usable(n) == IntToStr(n.version, AddPow2(n.network_address_int, 0))

get_last_usable(n) ==
    IntToStr(n.version, Pred(n.broadcast_address_int, BitsOf(n.version)))

get_num_addresses(n) == Pow2(BitsOf(n.version) - n.prefix_length)

\* format(x, '032b') / format(x, '0128b')
BinaryStr(x, bits) == [i \in 1..bits |-> IF (bits - i) \in x THEN "1" ELSE "0"]

(***************************************************************************)
(* analyze_network                                                         *)
(***************************************************************************)
\* lines 265-283: the info of a Network, or its error
NetworkInfo(network) ==
    IF ~network.ok THEN [error |-> network.err]
    ELSE [ip_version |-> IF network.version = 6 THEN "IPv6" ELSE "IPv4",
          network_address |-> get_network_address(network),
          broadcast_address |-> get_broadcast_address(network),
          netmask |-> get_netmask(network),
          prefix |-> network.prefix_length,
          num_addresses |-> get_num_addresses(network),
          first_usable |-> get_first_usable(network),
          last_usable |-> get_last_usable(network),
          mask_binary |-> BinaryStr(network.netmask_int, BitsOf(network.version))]

analyze_network(cidr) ==
    IF Len(cidr) = 0 THEN [error |-> "enter a CIDR notation"]
    ELSE IF ~Contains(cidr, "/") THEN [error |-> "enter an IP address with a prefix"]
    ELSE NetworkInfo(Network(cidr))

(***************************************************************************)
(* find_optimal_cidrs                                                      *)
(***************************************************************************)
ERROR_PREFIX == "Error: "

Min(S) == CHOOSE m \in S : \A k \in S : m <= k

\* a slip: the inner while loop is left out
AlignLoop_Skipped(current_ip, prefix, bits) == prefix

\* the inner while loop, lines 223-228: prefix goes up by one until the network
\* start is no longer below current_ip, or prefix has passed bits; the prefix it
\* ends with
AlignLoop(current_ip, prefix, bits) ==
    Min({p \in prefix .. (bits + 1) :
            \/ p > bits
            \/ ~Lt(And(current_ip, NetMask(bits, p)), current_ip)})

\* a slip: one address is skipped after each block
NextIp_OffByOne(current_ip, prefix, bits) ==
    AddPow2(AddPow2(And(current_ip, (bits - prefix) .. (bits - 1)), bits - prefix), 0)

\* a slip: the block size is not added
NextIp_NoAdvance(current_ip, prefix, bits) ==
    And(current_ip, (bits - prefix) .. (bits - 1))

\* current_ip after a block: (current_ip & ((1 << bits) - (1 << (bits - prefix))))
\*                           + (1 << (bits - prefix))
NextIp(current_ip, prefix, bits) ==
    AddPow2(And(current_ip, (bits - prefix) .. (bits - 1)), bits - prefix)

\* lines 230-236: the block emitted for prefix and the next current_ip
Block(current_ip, prefix, bits, version) ==
    [text |-> IntToStr(version, current_ip) \o <<"/">> \o DecStr(prefix),
     addr |-> current_ip,
     prefix |-> prefix,
     next |-> NextIp(current_ip, prefix, bits)]

\* one pass of the main loop, lines 214-236
LoopBody(current_ip, end_ip_int, bits, version) ==
    Block(current_ip,
          AlignLoop(current_ip, find_optimal_prefix(current_ip, end_ip_int, bits), bits),
          bits, version)

\* f"Error: {str(e)}"
ErrorText(msg) == <<ERROR_PREFIX, msg>>

\* cidrs[0].startswith("Error")
IsErrorText(t) == Len(t) > 0 /\ t[1] = ERROR_PREFIX

NoIP == [ok |-> FALSE, err |-> "", version |-> 0, ip_int |-> {}]

\* a slip: the versions are not compared
RangeChecked_NoVersionCheck(s, e) ==
    IF ~s.ok THEN [ok |-> FALSE, err |-> s.err, start_ip |-> NoIP, end_ip |-> NoIP]
    ELSE IF ~e.ok THEN [ok |-> FALSE, err |-> e.err, start_ip |-> NoIP, end_ip |-> NoIP]
    ELSE IF Lt(e.ip_int, s.ip_int)
    THEN [ok |-> TRUE, err |-> "", start_ip |-> e, end_ip |-> s]
    ELSE [ok |-> TRUE, err |-> "", start_ip |-> s, end_ip |-> e]

\* a slip: a reversed pair is not swapped
RangeChecked_NoSwap(s, e) ==
    IF ~s.ok THEN [ok |-> FALSE, err |-> s.err, start_ip |-> NoIP, end_ip |-> NoIP]
    ELSE IF ~e.ok THEN [ok |-> FALSE, err |-> e.err, start_ip |-> NoIP, end_ip |-> NoIP]
    ELSE IF s.version # e.version
    THEN [ok |-> FALSE, err |-> "the IP addresses must be of the same type",
          start_ip |-> NoIP, end_ip |-> NoIP]
    ELSE [ok |-> TRUE, err |-> "", start_ip |-> s, end_ip |-> e]

\* lines 201-205, on the two IP objects: of one version, swapped into order
RangeChecked(s, e) ==
    IF ~s.ok THEN [ok |-> FALSE, err |-> s.err, start_ip |-> NoIP, end_ip |-> NoIP]
    ELSE IF ~e.ok THEN [ok |-> FALSE, err |-> e.err, start_ip |-> NoIP, end_ip |-> NoIP]
    ELSE IF s.version # e.version
    THEN [ok |-> FALSE, err |-> "the IP addresses must be of the same type",
          start_ip |-> NoIP, end_ip |-> NoIP]
    \* start_ip > end_ip is answered by the reflected end_ip.__lt__(start_ip)
    ELSE IF Lt(e.ip_int, s.ip_int)
    THEN [ok |-> TRUE, err |-> "", start_ip |-> e, end_ip |-> s]
    ELSE [ok |-> TRUE, err |-> "", start_ip |-> s, end_ip |-> e]

\* lines 198-205: both addresses parsed, of one version, swapped into order;
\* or the ValueError raised on the way
RangeEntry(start_ip_str, end_ip_str) == RangeChecked(IP(start_ip_str), IP(end_ip_str))

\* the main loop run to its end, lines 212-238
RECURSIVE MainLoop(_, _, _, _, _)
MainLoopNext(b, end_ip_int, bits, version, result) ==
    MainLoop(b.next, end_ip_int, bits, version, Append(result, b.text))

MainLoop(current_ip, end_ip_int, bits, version, result) ==
    IF Le(current_ip, end_ip_int)
    THEN MainLoopNext(LoopBody(current_ip, end_ip_int, bits, version),
                      end_ip_int, bits, version, result)
    ELSE result

\* lines 207-240 from the entry's outcome
RangeResult(en) ==
    IF ~en.ok THEN <<ErrorText(en.err)>>
    ELSE MainLoop(en.start_ip.ip_int, en.end_ip.ip_int,
                  BitsOf(en.start_ip.version), en.start_ip.version, <<>>)

\* the whole function, as one value
find_optimal_cidrs(start_ip_str, end_ip_str) ==
    RangeResult(RangeEntry(start_ip_str, end_ip_str))

(***************************************************************************)
(* The inputs tried.  Addresses are a high part out of a few patterns      *)
(* (all zeros, 10.0.0.0 or 2001:db8::, all ones) with every combination of *)
(* the MaxLow low bits; they are typed in as the program itself prints     *)
(* them.  A few compressed and malformed texts are added.  A range is      *)
(* asked for between any two addresses that share their high part, between *)
(* the corner addresses of different high parts, and between any two of    *)
(* the other texts.                                                        *)
(***************************************************************************)
MaxLow == 3

HighParts(version) ==
    IF version = 4
    THEN {{}, Shl(IntToBits(10), 24), MaxLow .. (BITS_V4 - 1)}
    ELSE {{}, Or(Shl(IntToBits(8193), 112), Shl(IntToBits(3512), 96)),
          MaxLow .. (BITS_V6 - 1)}

LowParts == SUBSET (0 .. (MaxLow - 1))

CornerLowParts == {{}, {0}, 0 .. (MaxLow - 1)}

Addresses(version) == {Or(h, l) : h \in HighParts(version), l \in LowParts}

AddressTexts == {IntToStr(4, a) : a \in Addresses(4)} \cup {IntToStr(6, a) : a \in Addresses(6)}

CompressedTexts ==
    { <<"2", "0", "0", "1", ":", "d", "b", "8", ":", ":">>,
      <<":", ":", "1">>,
      <<"1", ":", ":", "2">>,
      <<":", ":">> }

MalformedTexts ==
    { <<"3", "0", "0", ".", "1", ".", "1", ".", "1">>,
      <<"1", ".", "2", ".", "3">>,
      <<"1", "0", ".", "0", ".", "a", ".", "1">>,
      <<"1", ":", "2", ":", "3">>,
      <<"1", ":", ":", "2", ":", ":", "3">>,
      <<"1", "2", "3", "4", "5", ":", "0", ":", "0", ":", "0", ":", "0", ":", "0", ":", "0", ":", "0">>,
      <<>> }

OtherTexts ==
    CompressedTexts \cup MalformedTexts
        \cup {IntToStr(4, Shl(IntToBits(10), 24)), IntToStr(6, {0})}

NearPairs(version) ==
    {<<IntToStr(version, Or(h, l1)), IntToStr(version, Or(h, l2))>> :
        h \in HighParts(version), l1 \in LowParts, l2 \in LowParts}

FarPairs(version) ==
    {<<IntToStr(version, Or(h1, l1)), IntToStr(version, Or(h2, l2))>> :
        h1 \in HighParts(version), h2 \in HighParts(version),
        l1 \in CornerLowParts, l2 \in CornerLowParts}

RangeInputs ==
    NearPairs(4) \cup NearPairs(6) \cup FarPairs(4) \cup FarPairs(6)
        \cup (OtherTexts \X OtherTexts)

InputTexts == AddressTexts \cup CompressedTexts \cup MalformedTexts

PrefixTexts ==
    {DecStr(p) : p \in 0 .. (BITS_V6 + 1)} \cup {<<>>, <<"x">>, <<"2", "/", "3">>}

CidrTexts == {a \o <<"/">> \o p : a \in InputTexts, p \in PrefixTexts} \cup InputTexts

(***************************************************************************)
(* The state: the position in main() and the locals of the call under way. *)
(***************************************************************************)
\* blocks is the history of the loop: current_ip and prefix at each append to result
VARIABLES pc, start_ip_str, end_ip_str, start_ip, end_ip, current_ip, end_ip_int,
          bits, result, blocks, cidr, network, info

vars == <<pc, start_ip_str, end_ip_str, start_ip, end_ip, current_ip, end_ip_int,
          bits, result, blocks, cidr, network, info>>

NoInfo == [pending |-> TRUE]

\* main() at its menu: no call under way
Init ==
    /\ pc = "menu"
    /\ start_ip_str = <<>> /\ end_ip_str = <<>>
    /\ start_ip = NoIP /\ end_ip = NoIP
    /\ current_ip = {} /\ end_ip_int = {} /\ bits = 0
    /\ result = <<>> /\ blocks = <<>>
    /\ cidr = <<>> /\ network = NoNetwork("") /\ info = NoInfo

\* choice "1": analyze_network(cidr)
Choice1 ==
    /\ pc = "menu"
    /\ \E c \in CidrTexts :
          /\ cidr' = c
          /\ network' = IF Len(c) = 0 \/ ~Contains(c, "/")
                        THEN NoNetwork("") ELSE Network(c)
          /\ info' = analyze_network(c)
    /\ pc' = "analyze_done"
    /\ UNCHANGED <<start_ip_str, end_ip_str, start_ip, end_ip, current_ip, end_ip_int,
                   bits, result, blocks>>

\* choice "2": find_optimal_cidrs(start_ip, end_ip) up to its main loop
Choice2 ==
    /\ pc = "menu"
    /\ \E p \in RangeInputs :
          \E en \in {RangeEntry(p[1], p[2])} :
              /\ start_ip_str' = p[1]
              /\ end_ip_str' = p[2]
              /\ start_ip' = en.start_ip
              /\ end_ip' = en.end_ip
              /\ IF en.ok
                 THEN /\ result' = <<>>
                      /\ current_ip' = en.start_ip.ip_int
                      /\ end_ip_int' = en.end_ip.ip_int
                      /\ bits' = BitsOf(en.start_ip.version)
                      /\ pc' = "loop"
                 ELSE /\ result' = <<ErrorText(en.err)>>
                      /\ UNCHANGED <<current_ip, end_ip_int, bits>>
                      /\ pc' = "range_done"
    /\ UNCHANGED <<blocks, cidr, network, info>>

\* the call is at `while current_ip <= end_ip_int` and the condition holds
LoopCondition == pc = "loop" /\ Le(current_ip, end_ip_int)

\* one pass of `while current_ip <= end_ip_int`
LoopIter ==
    /\ LoopCondition
    /\ \E b \in {LoopBody(current_ip, end_ip_int, bits, start_ip.version)} :
           /\ result' = Append(result, b.text)
           /\ blocks' = Append(blocks, [addr |-> b.addr, prefix |-> b.prefix])
           /\ current_ip' = b.next
    /\ UNCHANGED <<pc, start_ip_str, end_ip_str, start_ip, end_ip, end_ip_int, bits,
                   cidr, network, info>>

\* the loop condition fails: return result
LoopExit ==
    /\ pc = "loop"
    /\ ~Le(current_ip, end_ip_int)
    /\ pc' = "range_done"
    /\ UNCHANGED <<start_ip_str, end_ip_str, start_ip, end_ip, current_ip, end_ip_int,
                   bits, result, blocks, cidr, network, info>>

\* main() has printed the outcome and shows the menu again
Continue ==
    /\ pc \in {"analyze_done", "range_done"}
    /\ pc' = "menu"
    /\ start_ip_str' = <<>> /\ end_ip_str' = <<>>
    /\ start_ip' = NoIP /\ end_ip' = NoIP
    /\ current_ip' = {} /\ end_ip_int' = {} /\ bits' = 0
    /\ result' = <<>> /\ blocks' = <<>>
    /\ cidr' = <<>> /\ network' = NoNetwork("") /\ info' = NoInfo

Next == Choice1 \/ Choice2 \/ LoopIter \/ LoopExit \/ Continue

Spec == Init /\ [][Next]_vars

\* the interpreter runs the loop on: a pass or the exit that can be taken is taken.
\* The condition on LoopIter is WF_vars(LoopIter) with ENABLED <<LoopIter>>_vars
\* written out: a pass can be taken exactly when the loop condition holds, as the
\* body raises nothing and every pass changes current_ip.
FairSpec ==
    /\ Spec
    /\ ([]<>(~LoopCondition) \/ []<><<LoopIter>>_vars)
    /\ WF_vars(LoopExit)

(***************************************************************************)
(* The properties checked.                                                 *)
(***************************************************************************)
InRange == pc \in {"loop", "range_done"}

\* addr + 2^(width - prefix): the first address after block b
BlockEnd(b) == AddPow2(b.addr, bits - b.prefix)

\* x mod 2^n = 0
MultipleOfPow2(x, n) == And(x, Pow2Minus1(n)) = {}

\* C1: no emitted block holds an address outside [start, end]: for each block,
\* addr >= start and addr + 2^(width - prefix) - 1 <= end.
C1_NoBlockOutsideRange ==
    InRange =>
        \A i \in 1 .. Len(blocks) :
            /\ Le(start_ip.ip_int, blocks[i].addr)
            /\ Le(BlockEnd(blocks[i]), AddPow2(end_ip_int, 0))

\* C2: every address of [start, end] lies in exactly one emitted block: the first
\* block starts at start, each block starts where the one before it ends (no gap,
\* no overlap), the loop stands at the end of the last one, and at the return
\* that is above end.
C2_CoveredExactlyOnce ==
    InRange =>
        /\ \A i \in 1 .. Len(blocks) :
              /\ blocks[i].prefix <= bits
              /\ blocks[i].addr = IF i = 1 THEN start_ip.ip_int ELSE BlockEnd(blocks[i - 1])
        /\ current_ip = IF blocks = <<>> THEN start_ip.ip_int ELSE BlockEnd(blocks[Len(blocks)])
        /\ (pc = "range_done" /\ ~IsErrorText(result[1])) => Lt(end_ip_int, current_ip)

C2_Witness ==
    /\ pc = "range_done"
    /\ Len(blocks) >= 3
    /\ Lt(start_ip.ip_int, end_ip_int)

\* C3: every emitted block is aligned: prefix is in [0, width] and
\* addr mod 2^(width - prefix) = 0, at width 32 and at width 128.
C3_BlocksAligned ==
    InRange =>
        \A i \in 1 .. Len(blocks) :
            /\ 0 <= blocks[i].prefix /\ blocks[i].prefix <= bits
            /\ bits \in {BITS_V4, BITS_V6}
            /\ MultipleOfPow2(blocks[i].addr, bits - blocks[i].prefix)

C3_Witness ==
    /\ pc = "range_done"
    /\ bits = BITS_V6
    /\ \E i \in 1 .. Len(blocks) : blocks[i].addr # {} /\ blocks[i].prefix < bits

\* C4: no two adjacent emitted blocks can be merged into one larger aligned block:
\* no consecutive pair has the same prefix p with the first address a multiple of
\* 2^(width - p + 1).
C4_NoMergeablePair ==
    InRange =>
        \A i \in 1 .. (Len(blocks) - 1) :
            ~(/\ blocks[i].prefix = blocks[i + 1].prefix
              /\ MultipleOfPow2(blocks[i].addr, bits - blocks[i].prefix + 1))

C4_Witness ==
    /\ pc = "range_done"
    /\ \E i \in 1 .. (Len(blocks) - 1) : blocks[i].prefix = blocks[i + 1].prefix

\* C5: the main loop terminates: every pass strictly increases current_ip and ends
\* with prefix <= width, and a call in its loop reaches its return, also when
\* end = 2^width - 1.
C5_LoopTerminates ==
    /\ [][(pc = "loop" /\ pc' = "loop")
            => /\ Lt(current_ip, current_ip')
               /\ blocks'[Len(blocks')].prefix <= bits]_vars
    /\ (pc = "loop") ~> (pc = "range_done")

C5_Witness ==
    /\ pc = "range_done"
    /\ end_ip_int = Pow2Minus1(bits)
    /\ Len(blocks) >= 2
    /\ current_ip = Pow2(bits)

\* the address text of a CIDR text, and whether its prefix text is a number in
\* [0, width]
CidrAddress(c) == Split(c, "/")[1]

CidrPrefixOk(c, width) ==
    /\ Len(Split(c, "/")) = 2
    /\ DecOk(Split(c, "/")[2])
    /\ DecVal(Split(c, "/")[2], Len(Split(c, "/")[2])) <= width

DocPrefixV6 == Or(Shl(IntToBits(8193), 112), Shl(IntToBits(3512), 96))

\* C6: an IPv6 text with exactly one "::" and valid hex groups otherwise is parsed:
\* analyze_network gives no error for it, and for "2001:db8::/32" the network is
\* 2001:0db8:0000:0000:0000:0000:0000:0000.
C6_CompressedParses ==
    (/\ pc = "analyze_done"
     /\ CidrAddress(cidr) \in {<<"2", "0", "0", "1", ":", "d", "b", "8", ":", ":">>,
                               <<":", ":", "1">>, <<"1", ":", ":", "2">>}
     /\ CidrPrefixOk(cidr, BITS_V6))
        => /\ "error" \notin DOMAIN info
           /\ (cidr = <<"2", "0", "0", "1", ":", "d", "b", "8", ":", ":", "/", "3", "2">>)
                  => info.network_address = IntToStr(6, DocPrefixV6)

NotApplicable == <<"N", "/", "A">>

\* C7: for a CIDR with width - prefix <= 1 analyze_network reports "not
\* applicable" for the first and the last usable address.
C7_NoUsableInSmallBlocks ==
    (/\ pc = "analyze_done"
     /\ network.ok
     /\ BitsOf(network.version) - network.prefix_length <= 1)
        => /\ info.first_usable = NotApplicable
           /\ info.last_usable = NotApplicable

\* C8: Network("a/p") is accepted for every address a and every p in [0, width],
\* aligned or not; its network address is a with the low width - p bits cleared,
\* network & hostMask = 0 and broadcast = network | hostMask, for
\* hostMask = 2^(width - p) - 1.
C8_NetworkIsMaskedAddress ==
    (/\ pc = "analyze_done"
     /\ Len(cidr) > 0
     /\ IP(CidrAddress(cidr)).ok
     /\ CidrPrefixOk(cidr, BitsOf(IP(CidrAddress(cidr)).version)))
        => /\ network.ok
           /\ network.network_address_int
                 = IP(CidrAddress(cidr)).ip_int
                       \ Pow2Minus1(BitsOf(network.version) - network.prefix_length)
           /\ And(network.network_address_int,
                  Pow2Minus1(BitsOf(network.version) - network.prefix_length)) = {}
           /\ network.broadcast_address_int
                 = network.network_address_int
                       \cup Pow2Minus1(BitsOf(network.version) - network.prefix_length)

C8_Witness ==
    /\ pc = "analyze_done"
    /\ network.ok
    /\ network.network_address_int # network.ip_int
    /\ network.prefix_length > 0

\* whether a call of find_optimal_cidrs must fail: a text that does not parse, or
\* two versions
RangeMustFail ==
    \/ ~IP(start_ip_str).ok
    \/ ~IP(end_ip_str).ok
    \/ IP(start_ip_str).version # IP(end_ip_str).version

\* C9: no partial output on failure: when a text does not parse or the versions
\* differ the loop is never entered and the result is one error and nothing else;
\* when both parse to one width the result returned holds CIDR blocks only.
C9_ErrorOrBlocks ==
    InRange =>
        IF RangeMustFail
        THEN /\ pc = "range_done"
             /\ blocks = <<>>
             /\ Len(result) = 1
             /\ IsErrorText(result[1])
        ELSE pc = "range_done" =>
                 \A i \in 1 .. Len(result) :
                     /\ ~IsErrorText(result[i])
                     /\ Network(result[i]).ok

C9_Witness ==
    /\ pc = "range_done"
    /\ IP(start_ip_str).ok /\ IP(end_ip_str).ok
    /\ IP(start_ip_str).version # IP(end_ip_str).version
    /\ IsErrorText(result[1])

\* C10: find_optimal_cidrs is symmetric: the list returned for (a, b) is the list
\* returned for (b, a), for all addresses a and b of one width.
C10_Symmetric ==
    (pc = "range_done" /\ ~RangeMustFail)
        => result = find_optimal_cidrs(end_ip_str, start_ip_str)

C10_Witness ==
    /\ pc = "range_done"
    /\ ~RangeMustFail
    /\ Lt(IP(end_ip_str).ip_int, IP(start_ip_str).ip_int)
    /\ Len(result) >= 2

====
